---- MODULE Spec2Model ----
(***************************************************************************)
(* A model of src/src/App.jsx: the React component App of the "places"     *)
(* application.  The state is the component's five useState cells, the     *)
(* localStorage slot STORAGE_KEY, the reverse-geocode lookups in flight    *)
(* (each holding the closure of the render that started it) and the file   *)
(* last offered as a download.  One action per event handler, effect or    *)
(* promise continuation.                                                   *)
(*                                                                         *)
(* JavaScript values are modelled as follows.                              *)
(*   - a string that the code trims (title, notes, city) is a sequence of  *)
(*     characters; other strings are TLA+ strings;                         *)
(*   - an object is a function from the keys it has; a key whose value is  *)
(*     `undefined` maps to None (<<>>), a defined value v maps to <<v>>     *)
(*     in the objects where that can happen (meta);                        *)
(*   - null / absent is None, a present value v is Some(v);                *)
(*   - a JSON text is [kind |-> "invalid"] (not parsable) or               *)
(*     [kind |-> "json", value |-> v].                                     *)
(***************************************************************************)
EXTENDS Integers, Sequences, FiniteSets, TLC

\* ---------------------------------------------------------------- bounds
\* user events (clicks, key strokes, file picks, reloads) in one behaviour
MaxEvents == 5
\* calls of crypto.randomUUID() in one behaviour
MaxPlaces == 2
\* reverse-geocode requests in flight at once
MaxInflight == 2

\* ---------------------------------------------------------------- values
None == <<>>
Some(v) == <<v>>
Val(o) == o[1]

\* obj?.key : the value under key, or undefined
Field(obj, key) == IF key \in DOMAIN obj THEN Some(obj[key]) ELSE None

\* meta.key for an enrichment object, whose keys map to optional values:
\* undefined when the key is missing or its value is undefined
MetaField(meta, key) == IF key \in DOMAIN meta THEN meta[key] ELSE None

\* {} : the object with no keys
EmptyObject == [k \in {} |-> None]

\* the literal "Untitled place" of addDraftToLocations
UntitledPlace == <<"U","n","t","i","t","l","e","d"," ","p","l","a","c","e">>

\* String.prototype.trim
RECURSIVE TrimLeft(_)
TrimLeft(s) == IF s # <<>> /\ Head(s) = " " THEN TrimLeft(Tail(s)) ELSE s
RECURSIVE TrimRight(_)
TrimRight(s) ==
  IF s # <<>> /\ s[Len(s)] = " " THEN TrimRight(SubSeq(s, 1, Len(s) - 1)) ELSE s
trim(s) == TrimRight(TrimLeft(s))

\* ---------------------------------------------------------------- inputs
\* e.latlng of a map click
Points == {[lat |-> 40, lng |-> -74], [lat |-> 10, lng |-> 20]}
\* e.target.value of the title input and of the notes textarea
TitleInputs == {<<" ">>, <<" ", "a", " ">>}
NotesInputs == {<<"n", " ">>}

\* what the lookup service answers (the body of the response, parsed)
JerseyCity == <<"J", "C">>
ResponseCity ==
  [display_name |-> "Jersey City, USA",
   address |-> [city |-> JerseyCity, country |-> "USA"]]
ResponseTown ==
  [display_name |-> "Jersey City, USA",
   address |-> [town |-> JerseyCity, county |-> <<"H">>, country |-> "USA"]]
ResponseBare == [error |-> "Unable to geocode"]
Responses == {ResponseCity, ResponseTown, ResponseBare}

\* how the two awaits of enrichWithReverseGeocode end: fetch rejects, or
\* res.json() rejects, or both resolve with a body
NetFail == [kind |-> "fetch rejects"]
ParseFail == [kind |-> "json rejects"]
Outcomes == {NetFail, ParseFail} \cup {[kind |-> "data", data |-> d] : d \in Responses}

\* ---------------------------------------------------------------- JSON
\* a JSON text: not parsable, or the text of a value
InvalidText == [kind |-> "invalid"]
Text(v) == [kind |-> "json", value |-> v]
\* JSON values: arrays and objects are tagged, so that [] and {} differ
Array(items) == [type |-> "array", items |-> items]
Object(fields) == [type |-> "object", fields |-> fields]

\* JSON.stringify of an object whose values may be undefined: a key whose
\* value is undefined is left out
StringifyMeta(meta) == [k \in {j \in DOMAIN meta : meta[j] # None} |-> meta[k]]
\* a serialisation that leaves the enrichment out
StringifyPlaceNoMeta(p) == [k \in DOMAIN p \ {"meta"} |-> p[k]]

StringifyPlace(p) ==
  [k \in DOMAIN p |-> IF k = "meta" THEN StringifyMeta(p[k]) ELSE p[k]]
StringifyLocations(locs) ==
  Array([i \in 1..Len(locs) |-> StringifyPlace(locs[i])])

\* JSON.parse: throws on a text that is not JSON
JSONparse(text) ==
  IF text.kind = "json" THEN [ok |-> TRUE, value |-> text.value]
  ELSE [ok |-> FALSE]

\* Array.isArray(v?.key) for a parsed value v
IsArray(v) == v.type = "array"
HasArrayField(v, key) ==
  /\ v.type = "object"
  /\ key \in DOMAIN v.fields
  /\ IsArray(v.fields[key])

\* v.key ?? dflt for a parsed object v
FieldOr(v, key, dflt) == IF key \in DOMAIN v.fields THEN v.fields[key] ELSE dflt

\* ---------------------------------------------------------------- geocode
\* a || b for two optional strings: the first truthy one, else the second
Or(a, b) == IF a # None /\ Val(a) # <<>> THEN a ELSE b

\* lines 76-78: the enrichment extracted from the parsed body
Enrichment(data) ==
  LET address == Field(data, "address")
      part(key) == IF address = None THEN None ELSE Field(Val(address), key)
      city == Or(Or(Or(part("city"), part("town")), part("village")), part("county"))
  IN  [displayName |-> Field(data, "display_name"),
       city |-> city,
       country |-> part("country")]

\* the promise enrichWithReverseGeocode returns, given how its awaits end
\* (a version without the catch clause)
enrichWithoutCatch(outcome) ==
  IF outcome.kind = "data"
    THEN [status |-> "fulfilled", value |-> Enrichment(outcome.data)]
    ELSE [status |-> "rejected"]

\* the promise enrichWithReverseGeocode returns: the catch clause turns a
\* rejected fetch or res.json() into {}
enrichWithReverseGeocode(outcome) ==
  IF outcome.kind = "data"
    THEN [status |-> "fulfilled", value |-> Enrichment(outcome.data)]
    ELSE [status |-> "fulfilled", value |-> EmptyObject]

\* ---------------------------------------------------------------- state
VARIABLES
  locations,     \* useState: the sequence of Place
  isCollecting,  \* useState: map clicks open a draft
  showList,      \* useState: the side list is shown
  draft,         \* useState: None (null) or Some(draft object)
  loadingMeta,   \* useState: the "looking up place" flag
  storage,       \* localStorage[STORAGE_KEY]: None or Some(JSON text)
  inflight,      \* lookups awaited by addDraftToLocations / saveEdit
  download,      \* the file places.json last offered: None or Some(text)
  alerts,        \* the messages alert() has shown, last first
  phase,         \* "mount": rendered, effects not run; "loaded"; "ready"
  queued,        \* state updates queued by the load effect
  uuidCount,     \* how many ids crypto.randomUUID() has produced
  events,        \* how many user events have happened
  lastEvent      \* what the last step was

vars == <<locations, isCollecting, showList, draft, loadingMeta, storage,
          inflight, download, alerts, phase, queued, uuidCount, events,
          lastEvent>>

\* a persist effect that writes the list only
persistLocationsOnly(locs, collecting, list) ==
  Some(Text(Object([locations |-> StringifyLocations(locs)])))

\* the document the persist effect writes (lines 44-47)
persistEffect(locs, collecting, list) ==
  Some(Text(Object([locations |-> StringifyLocations(locs),
                    isCollecting |-> collecting,
                    showList |-> list])))

\* what the slot can hold when the page is first opened
ImportedPlace ==
  [id |-> 101, lat |-> 1, lng |-> 2, title |-> <<"x">>, notes |-> <<>>,
   createdAt |-> 7, meta |-> [country |-> Some("USA")]]
ImportedTwin ==
  [id |-> 101, lat |-> 3, lng |-> 4, title |-> <<"y">>, notes |-> <<>>,
   createdAt |-> 8]
StoredNoLocations == Text(Object([isCollecting |-> TRUE, showList |-> TRUE]))
StoredNoFlags == Text(Object([locations |-> Array(<<ImportedPlace>>)]))
StoredTwins ==
  Text(Object([locations |-> Array(<<ImportedPlace, ImportedTwin>>),
               isCollecting |-> FALSE, showList |-> TRUE]))
InitialStorage ==
  {None, Some(InvalidText), Some(StoredNoLocations), Some(StoredNoFlags),
   Some(StoredTwins)}

\* the files the user can pick for import, besides an exported one
FileNotJSON == InvalidText
FileObject == Text(Object([locations |-> Array(<<ImportedPlace>>)]))
FileTwins == Text(Array(<<ImportedPlace, ImportedTwin>>))
Files == {FileNotJSON, FileObject, FileTwins}

Event(name) == [name |-> name]

\* lines 21-25: the state of the first render, before any effect has run
InitWith(slot) ==
  /\ locations = <<>>
  /\ isCollecting = TRUE
  /\ showList = TRUE
  /\ draft = None
  /\ loadingMeta = FALSE
  /\ storage = slot
  /\ inflight = <<>>
  /\ download = None
  /\ alerts = <<>>
  /\ phase = "mount"
  /\ queued = None
  /\ uuidCount = 0
  /\ events = 0
  /\ lastEvent = Event("render")

Init == \E slot \in InitialStorage : InitWith(slot)

\* a load effect whose missing flags default to true
loadEffectDefaultsTrue(raw) ==
  IF raw = None THEN None
  ELSE LET r == JSONparse(Val(raw)) IN
       IF r.ok /\ HasArrayField(r.value, "locations")
         THEN Some([locations |-> r.value.fields.locations.items,
                    isCollecting |-> FieldOr(r.value, "isCollecting", TRUE),
                    showList |-> FieldOr(r.value, "showList", TRUE)])
         ELSE None

\* lines 28-40: the updates the load effect queues, given the slot
loadEffect(raw) ==
  IF raw = None THEN None
  ELSE LET r == JSONparse(Val(raw)) IN
       IF r.ok /\ HasArrayField(r.value, "locations")
         THEN Some([locations |-> r.value.fields.locations.items,
                    isCollecting |-> FieldOr(r.value, "isCollecting", FALSE),
                    showList |-> FieldOr(r.value, "showList", FALSE)])
         ELSE None

\* the state in memory before the reload that this mount follows, if any
Before == IF "before" \in DOMAIN lastEvent THEN lastEvent.before ELSE None

\* the two effects of the first render run in order: load, then persist
\* (which writes the state of that render, the defaults)
MountEffects ==
  /\ phase = "mount"
  /\ queued' = loadEffect(storage)
  /\ storage' = persistEffect(locations, isCollecting, showList)
  /\ phase' = IF queued' = None THEN "ready" ELSE "loaded"
  /\ lastEvent' = [name |-> "mountEffects", before |-> Before, raw |-> storage]
  /\ UNCHANGED <<locations, isCollecting, showList, draft, loadingMeta,
                 inflight, download, alerts, uuidCount, events>>

\* the render caused by the load effect's updates, and its persist effect
ApplyLoad ==
  /\ phase = "loaded"
  /\ locations' = Val(queued).locations
  /\ isCollecting' = Val(queued).isCollecting
  /\ showList' = Val(queued).showList
  /\ storage' = persistEffect(locations', isCollecting', showList')
  /\ queued' = None
  /\ phase' = "ready"
  /\ lastEvent' = [name |-> "applyLoad", before |-> Before,
                   raw |-> lastEvent.raw]
  /\ UNCHANGED <<draft, loadingMeta, inflight, download, alerts, uuidCount,
                 events>>

\* a user event is handled once the component is mounted
UserEvent == phase = "ready" /\ events < MaxEvents /\ events' = events + 1

\* the user reloads the page: memory is lost, the slot is kept
Reload ==
  /\ UserEvent
  /\ locations' = <<>>
  /\ isCollecting' = TRUE
  /\ showList' = TRUE
  /\ draft' = None
  /\ loadingMeta' = FALSE
  /\ inflight' = <<>>
  /\ phase' = "mount"
  /\ queued' = None
  /\ lastEvent' = [name |-> "reload",
                   before |-> Some([locations |-> locations,
                                    isCollecting |-> isCollecting,
                                    showList |-> showList])]
  /\ UNCHANGED <<storage, download, alerts, uuidCount>>

\* ---------------------------------------------------------------- draft panel
\* A lookup in flight is [op, draft, origin]: the handler that awaits it, the
\* draft object its closure captured (the `draft` of the render in which the
\* button was pressed), and what has since happened to the panel it was
\* started from: "open" (still that draft's panel), "cancelled" (Cancel was
\* pressed on it), "committed" (another lookup started from it has committed
\* and closed it) or "closed" (closed or replaced otherwise).
Lookup(op, d) == [op |-> op, draft |-> d, origin |-> "open"]

\* the panel no longer shows the draft the open lookups were started from
Leave(flights, how) ==
  [i \in 1..Len(flights) |->
     IF flights[i].origin = "open"
       THEN [flights[i] EXCEPT !.origin = how]
       ELSE flights[i]]

IsEditing(d) == "id" \in DOMAIN d

\* a click handler without the test of isCollecting
MapClickAlways(point) ==
  /\ UserEvent
  /\ draft' = Some([lat |-> point.lat, lng |-> point.lng,
                    title |-> <<>>, notes |-> <<>>])
  /\ inflight' = Leave(inflight, "closed")
  /\ lastEvent' = [name |-> "mapClick", point |-> point]
  /\ UNCHANGED <<locations, isCollecting, showList, loadingMeta, storage,
                 download, alerts, phase, queued, uuidCount>>

\* lines 54-58: a click on the map
MapClick(point) ==
  /\ UserEvent
  /\ IF ~isCollecting
       THEN UNCHANGED <<draft, inflight>>
       ELSE /\ draft' = Some([lat |-> point.lat, lng |-> point.lng,
                              title |-> <<>>, notes |-> <<>>])
            /\ inflight' = Leave(inflight, "closed")
  /\ lastEvent' = [name |-> "mapClick", point |-> point]
  /\ UNCHANGED <<locations, isCollecting, showList, loadingMeta, storage,
                 download, alerts, phase, queued, uuidCount>>

\* line 259: typing in the title input
ChangeTitle(value) ==
  /\ UserEvent
  /\ draft # None
  /\ draft' = Some([Val(draft) EXCEPT !.title = value])
  /\ lastEvent' = Event("changeTitle")
  /\ UNCHANGED <<locations, isCollecting, showList, loadingMeta, storage,
                 inflight, download, alerts, phase, queued, uuidCount>>

\* line 266: typing in the notes textarea
ChangeNotes(value) ==
  /\ UserEvent
  /\ draft # None
  /\ draft' = Some([Val(draft) EXCEPT !.notes = value])
  /\ lastEvent' = Event("changeNotes")
  /\ UNCHANGED <<locations, isCollecting, showList, loadingMeta, storage,
                 inflight, download, alerts, phase, queued, uuidCount>>

\* line 269: the Cancel button
Cancel ==
  /\ UserEvent
  /\ draft # None
  /\ draft' = None
  /\ inflight' = Leave(inflight, "cancelled")
  /\ lastEvent' = Event("cancel")
  /\ UNCHANGED <<locations, isCollecting, showList, loadingMeta, storage,
                 download, alerts, phase, queued, uuidCount>>

\* ids still to be produced for the add lookups in flight
AddsInFlight == Cardinality({i \in 1..Len(inflight) : inflight[i].op = "add"})

\* lines 87-89 and 63-72: the Add button (shown when the draft has no id);
\* addDraftToLocations runs up to the fetch inside enrichWithReverseGeocode
addDraftToLocations ==
  /\ UserEvent
  /\ draft # None
  /\ ~IsEditing(Val(draft))
  /\ Len(inflight) < MaxInflight
  /\ uuidCount + AddsInFlight < MaxPlaces
  /\ loadingMeta' = TRUE
  /\ inflight' = Append(inflight, Lookup("add", Val(draft)))
  /\ lastEvent' = Event("add")
  /\ UNCHANGED <<locations, isCollecting, showList, draft, storage, download,
                 alerts, phase, queued, uuidCount>>

\* lines 113-115 and 63-72: the Save button (shown when the draft has an id)
saveEdit ==
  /\ UserEvent
  /\ draft # None
  /\ IsEditing(Val(draft))
  /\ Len(inflight) < MaxInflight
  /\ loadingMeta' = TRUE
  /\ inflight' = Append(inflight, Lookup("save", Val(draft)))
  /\ lastEvent' = Event("save")
  /\ UNCHANGED <<locations, isCollecting, showList, draft, storage, download,
                 alerts, phase, queued, uuidCount>>

\* the title without the trim: draft.title || meta.city || "Untitled place"
TitleOfUntrimmed(d, meta) ==
  LET city == MetaField(meta, "city") IN
  IF d.title # <<>> THEN d.title
  ELSE IF city # None /\ Val(city) # <<>> THEN Val(city)
  ELSE UntitledPlace

\* line 94: draft.title?.trim() || meta.city || "Untitled place"
TitleOf(d, meta) ==
  LET city == MetaField(meta, "city") IN
  IF trim(d.title) # <<>> THEN trim(d.title)
  ELSE IF city # None /\ Val(city) # <<>> THEN Val(city)
  ELSE UntitledPlace

\* Date.now() at the creation of the next Place: a clock that is read once
\* per creation and has advanced since the last one
DateNow == 1000 + uuidCount

\* lines 90-98: the Place built from the captured draft d
NewLocation(d, meta) ==
  [id |-> uuidCount + 1,
   lat |-> d.lat,
   lng |-> d.lng,
   title |-> TitleOf(d, meta),
   notes |-> trim(d.notes),
   createdAt |-> DateNow,
   meta |-> meta]

\* a replacement built from the draft alone: { ...draft, meta }
OverwriteFromDraft(l, d, meta) ==
  [id |-> d.id, lat |-> d.lat, lng |-> d.lng, title |-> d.title,
   notes |-> d.notes, meta |-> meta]

\* line 119: { ...l, lat, lng, title, notes, meta } from the captured draft d
Overwrite(l, d, meta) ==
  [k \in DOMAIN l \cup {"lat", "lng", "title", "notes", "meta"} |->
     CASE k = "lat" -> d.lat
       [] k = "lng" -> d.lng
       [] k = "title" -> d.title
       [] k = "notes" -> d.notes
       [] k = "meta" -> meta
       [] OTHER -> l[k]]

\* an updater that adds the edited Place when none has its id
SaveUpdaterUpsert(prev, d, meta) ==
  IF \E i \in 1..Len(prev) : Field(prev[i], "id") = Field(d, "id")
    THEN [i \in 1..Len(prev) |->
            IF Field(prev[i], "id") = Field(d, "id")
              THEN Overwrite(prev[i], d, meta)
              ELSE prev[i]]
    ELSE prev \o <<OverwriteFromDraft(d, d, meta)>>

\* an updater that adds the edited Place instead of replacing it
SaveUpdaterAppend(prev, d, meta) ==
  prev \o [i \in 1..Len(SelectSeq(prev, LAMBDA l : l.id = d.id)) |->
            Overwrite(SelectSeq(prev, LAMBDA l : l.id = d.id)[i], d, meta)]

\* lines 116-122: the updater of saveEdit
SaveUpdater(prev, d, meta) ==
  [i \in 1..Len(prev) |->
     IF Field(prev[i], "id") = Field(d, "id")
       THEN Overwrite(prev[i], d, meta)
       ELSE prev[i]]

\* a continuation that reads the draft state current when it runs
DraftReadCurrent(lookup, current) ==
  IF current # None THEN Val(current) ELSE lookup.draft

\* the draft a continuation reads after its await: the one its closure
\* captured when the button was pressed
DraftRead(lookup, current) == lookup.draft

RemoveAt(seq, i) == SubSeq(seq, 1, i - 1) \o SubSeq(seq, i + 1, Len(seq))

\* lines 72-84, then 90-100 or 116-123: the request of lookup i ends with
\* `outcome`; enrichWithReverseGeocode finishes and the continuation of the
\* handler that awaited it runs in the same turn of the event loop
Settle(i, outcome) ==
  LET lookup == inflight[i]
      promise == enrichWithReverseGeocode(outcome)
      d == DraftRead(lookup, draft)
  IN
  /\ phase = "ready"
  /\ loadingMeta' = FALSE
  /\ lastEvent' = [name |-> "settle", lookup |-> lookup, outcome |-> outcome,
                   status |-> promise.status, current |-> draft]
  /\ IF promise.status = "fulfilled"
       THEN /\ IF lookup.op = "add"
                 THEN /\ locations' = <<NewLocation(d, promise.value)>> \o locations
                      /\ uuidCount' = uuidCount + 1
                 ELSE /\ locations' = SaveUpdater(locations, d, promise.value)
                      /\ uuidCount' = uuidCount
            /\ draft' = None
            /\ inflight' = Leave(RemoveAt(inflight, i),
                                 IF lookup.origin = "open" THEN "committed"
                                                           ELSE "closed")
            /\ storage' = persistEffect(locations', isCollecting, showList)
       ELSE /\ inflight' = RemoveAt(inflight, i)
            /\ UNCHANGED <<locations, uuidCount, draft, storage>>
  /\ UNCHANGED <<isCollecting, showList, download, alerts, phase, queued, events>>

\* ---------------------------------------------------------------- list
Ids(locs) == {locs[i].id : i \in 1..Len(locs)}

\* line 104: the updater of deleteLocation
DeleteUpdater(prev, id) == SelectSeq(prev, LAMBDA l : Field(l, "id") # Some(id))

\* lines 103-105: a Delete button (one per Place shown)
deleteLocation(id) ==
  /\ UserEvent
  /\ id \in Ids(locations)
  /\ locations' = DeleteUpdater(locations, id)
  /\ storage' = persistEffect(locations', isCollecting, showList)
  /\ lastEvent' = [name |-> "delete", id |-> id]
  /\ UNCHANGED <<isCollecting, showList, draft, loadingMeta, inflight, download,
                 alerts, phase, queued, uuidCount>>

\* locations.find((l) => l.id === id)
Find(locs, id) == locs[CHOOSE i \in 1..Len(locs) :
                          /\ locs[i].id = id
                          /\ \A j \in 1..(i - 1) : locs[j].id # id]

\* lines 107-111: an Edit button (one per Place shown)
startEdit(id) ==
  /\ UserEvent
  /\ id \in Ids(locations)
  /\ LET loc == Find(locations, id) IN
       draft' = Some([lat |-> loc.lat, lng |-> loc.lng, title |-> loc.title,
                      notes |-> loc.notes, id |-> loc.id])
  /\ inflight' = Leave(inflight, "closed")
  /\ lastEvent' = Event("edit")
  /\ UNCHANGED <<locations, isCollecting, showList, loadingMeta, storage,
                 download, alerts, phase, queued, uuidCount>>

\* lines 126-129: the Done button (shown while collecting)
handleDone ==
  /\ UserEvent
  /\ isCollecting
  /\ isCollecting' = FALSE
  /\ showList' = FALSE
  /\ storage' = persistEffect(locations, isCollecting', showList')
  /\ lastEvent' = Event("done")
  /\ UNCHANGED <<locations, draft, loadingMeta, inflight, download, alerts,
                 phase, queued, uuidCount>>

\* line 183: the Show List / Hide List button (shown when not collecting)
ToggleList ==
  /\ UserEvent
  /\ ~isCollecting
  /\ showList' = ~showList
  /\ storage' = persistEffect(locations, isCollecting, showList')
  /\ lastEvent' = Event("toggleList")
  /\ UNCHANGED <<locations, isCollecting, draft, loadingMeta, inflight,
                 download, alerts, phase, queued, uuidCount>>

\* what the slot holds after the render that follows a handler: the persist
\* effect (lines 43-48) overwrites it when one of its dependencies changed
AfterRender(slot, changed, locs, collecting, list) ==
  IF changed THEN persistEffect(locs, collecting, list) ELSE slot

\* lines 131-138: the Reset button; `confirmed` is what confirm() returns
handleReset(confirmed) ==
  /\ UserEvent
  /\ IF ~confirmed
       THEN UNCHANGED <<locations, isCollecting, showList, draft, storage,
                        inflight>>
       ELSE /\ locations' = <<>>
            /\ isCollecting' = TRUE
            /\ showList' = TRUE
            /\ draft' = None
            /\ inflight' = Leave(inflight, "closed")
            \* line 137 removes the key (None); setLocations([]) stores a
            \* new array, so `locations` has changed for the effect
            /\ storage' = AfterRender(None, TRUE, locations', isCollecting',
                                      showList')
  /\ lastEvent' = [name |-> "reset", confirmed |-> confirmed]
  /\ UNCHANGED <<loadingMeta, download, alerts, phase, queued, uuidCount>>

\* lines 140-148: the Export JSON button
downloadJSON ==
  /\ UserEvent
  /\ download' = Some(Text(StringifyLocations(locations)))
  /\ lastEvent' = Event("export")
  /\ UNCHANGED <<locations, isCollecting, showList, draft, loadingMeta, storage,
                 inflight, alerts, phase, queued, uuidCount>>

\* an onload that switches the mode before it checks what was parsed
onUploadFileFlagsFirst(file) ==
  LET r == JSONparse(file) IN
  /\ UserEvent
  /\ isCollecting' = FALSE
  /\ showList' = FALSE
  /\ IF r.ok /\ IsArray(r.value)
       THEN /\ locations' = r.value.items
            /\ alerts' = alerts
       ELSE /\ alerts' = <<IF r.ok THEN "Invalid file format."
                                   ELSE "Could not parse JSON.">> \o alerts
            /\ UNCHANGED locations
  /\ storage' = persistEffect(locations', isCollecting', showList')
  /\ lastEvent' = [name |-> "import", file |-> file]
  /\ UNCHANGED <<draft, loadingMeta, inflight, download, phase, queued, uuidCount>>

\* lines 154-167: reader.onload for the file picked in the Import JSON input
\* (onUploadFile itself only starts the read)
onUploadFile(file) ==
  LET r == JSONparse(file) IN
  /\ UserEvent
  /\ IF r.ok /\ IsArray(r.value)
       THEN /\ locations' = r.value.items
            /\ isCollecting' = FALSE
            /\ showList' = FALSE
            /\ storage' = persistEffect(locations', isCollecting', showList')
            /\ alerts' = alerts
       ELSE /\ alerts' = <<IF r.ok THEN "Invalid file format."
                                   ELSE "Could not parse JSON.">> \o alerts
            /\ UNCHANGED <<locations, isCollecting, showList, storage>>
  /\ lastEvent' = [name |-> "import", file |-> file]
  /\ UNCHANGED <<draft, loadingMeta, inflight, download, phase, queued, uuidCount>>

\* the files that can be picked: the given ones and the exported one
Pickable == Files \cup (IF download = None THEN {} ELSE {Val(download)})

\* ---------------------------------------------------------------- behaviours
Next ==
  \/ MountEffects
  \/ ApplyLoad
  \/ Reload
  \/ \E point \in Points : MapClick(point)
  \/ \E value \in TitleInputs : ChangeTitle(value)
  \/ \E value \in NotesInputs : ChangeNotes(value)
  \/ Cancel
  \/ addDraftToLocations
  \/ saveEdit
  \/ \E i \in 1..Len(inflight) : \E outcome \in Outcomes : Settle(i, outcome)
  \/ \E id \in Ids(locations) : deleteLocation(id)
  \/ \E id \in Ids(locations) : startEdit(id)
  \/ handleDone
  \/ ToggleList
  \/ \E confirmed \in BOOLEAN : handleReset(confirmed)
  \/ downloadJSON
  \/ \E file \in Pickable : onUploadFile(file)

Spec == Init /\ [][Next]_vars

\* a fresh browser profile (nothing stored) and no file import: every Place
\* in memory or in the slot was created by addDraftToLocations
InitFresh == InitWith(None)

NextFresh ==
  \/ MountEffects
  \/ ApplyLoad
  \/ Reload
  \/ \E point \in Points : MapClick(point)
  \/ \E value \in TitleInputs : ChangeTitle(value)
  \/ \E value \in NotesInputs : ChangeNotes(value)
  \/ Cancel
  \/ addDraftToLocations
  \/ saveEdit
  \/ \E i \in 1..Len(inflight) : \E outcome \in Outcomes : Settle(i, outcome)
  \/ \E id \in Ids(locations) : deleteLocation(id)
  \/ \E id \in Ids(locations) : startEdit(id)
  \/ handleDone
  \/ ToggleList
  \/ \E confirmed \in BOOLEAN : handleReset(confirmed)
  \/ downloadJSON

SpecFresh == InitFresh /\ [][NextFresh]_vars

\* lines 75-79: the fetch of every lookup in flight eventually settles, so
\* the handler awaiting it resumes
LookupsSettle ==
  \A i \in 1..MaxInflight :
     WF_vars(i <= Len(inflight) /\ \E outcome \in Outcomes : Settle(i, outcome))

SpecLive == InitFresh /\ [][NextFresh]_vars /\ LookupsSettle

\* ---------------------------------------------------------------- claims
\* the six plain fields of a Place and the three of its meta
PlaceKeys == {"id", "lat", "lng", "title", "notes", "createdAt"}
MetaKeys == {"displayName", "city", "country"}
MetaOf(p, key) == IF "meta" \in DOMAIN p THEN MetaField(p.meta, key) ELSE None

\* two Places agree on every plain field and on every defined meta field
SamePlace(p, q) ==
  /\ \A k \in PlaceKeys : Field(p, k) = Field(q, k)
  /\ \A k \in MetaKeys : MetaOf(p, k) = MetaOf(q, k)

\* same length, same order, same Places
Equivalent(ls, ms) ==
  /\ Len(ls) = Len(ms)
  /\ \A i \in 1..Len(ls) : SamePlace(ls[i], ms[i])

SameState(st) ==
  /\ Equivalent(st.locations, locations)
  /\ st.isCollecting = isCollecting
  /\ st.showList = showList

\* C1: after a confirmed Reset, with its render and effects run, locations
\* is empty, both flags are true and the storage slot holds no document.
C1_ResetErasesStorage ==
  (lastEvent.name = "reset" /\ lastEvent.confirmed) =>
     /\ locations = <<>>
     /\ isCollecting
     /\ showList
     /\ storage = None

\* C2: whenever nothing is pending, the slot holds a document whose
\* locations, isCollecting and showList are those in memory; loading it gives
\* back that state; and after a reload the state in memory is the one before
\* the reload, the slot again holding its document.
C2_PersistOnEveryMutation ==
  phase = "ready" =>
     /\ storage # None
     /\ Val(storage).kind = "json"
     /\ Val(storage).value.type = "object"
     /\ DOMAIN Val(storage).value.fields = {"locations", "isCollecting", "showList"}
     /\ Val(storage).value.fields.locations.type = "array"
     /\ SameState([locations |-> Val(storage).value.fields.locations.items,
                   isCollecting |-> Val(storage).value.fields.isCollecting,
                   showList |-> Val(storage).value.fields.showList])
     /\ loadEffect(storage) # None
     /\ SameState(Val(loadEffect(storage)))
     /\ (Before # None => SameState(Val(Before)))

\* C2 witness: a reload has completed and restored a Place that was added
\* and then updated (its title is the city of the lookup made by Add, its
\* meta the empty enrichment of the failed lookup made by Save)
C2_Witness ==
  /\ phase = "ready"
  /\ Before # None
  /\ \E i \in 1..Len(locations) :
       /\ locations[i].id = 1
       /\ locations[i].title = JerseyCity
       /\ locations[i].meta = EmptyObject

\* C3: starting from an empty list, with add, update and remove in any
\* interleaving with lookup resolutions, no two entries of locations have
\* the same id.
C3_UniqueIds ==
  \A i, j \in 1..Len(locations) : i # j => locations[i].id # locations[j].id

\* C3 witness: two Places are listed and a Save has just overwritten one
C3_Witness ==
  /\ Len(locations) = 2
  /\ lastEvent.name = "settle"
  /\ lastEvent.lookup.op = "save"
  /\ \E i \in 1..2 : locations[i].id = lastEvent.lookup.draft.id

\* the file is not JSON, or is JSON but not an array
NotAnArray(file) == file.kind # "json" \/ file.value.type # "array"

\* C4: importing a file that is not JSON, or is JSON but not an array, shows
\* an alert and leaves locations, both flags, the draft and the slot as
\* they were.
C4_BadImportChangesNothing ==
  [][(lastEvent'.name = "import" /\ NotAnArray(lastEvent'.file)) =>
       /\ Len(alerts') = Len(alerts) + 1
       /\ Head(alerts') = (IF lastEvent'.file.kind = "json"
                             THEN "Invalid file format."
                             ELSE "Could not parse JSON.")
       /\ UNCHANGED <<locations, isCollecting, showList, draft, storage>>]_vars

\* C4 witness: both kinds of bad file have been imported, with Places listed
\* and a draft open
C4_Witness ==
  /\ lastEvent.name = "import"
  /\ NotAnArray(lastEvent.file)
  /\ alerts = <<"Invalid file format.", "Could not parse JSON.">>
  /\ locations # <<>>
  /\ draft # None

\* C5: importing the document that exporting the current locations gives
\* results in an equivalent locations: same length, same order, the same
\* plain fields and the same defined meta fields.
C5_ExportImportRoundTrip ==
  [][(/\ lastEvent'.name = "import"
      /\ download # None
      /\ Val(download) = Text(StringifyLocations(locations))
      /\ lastEvent'.file = Val(download))
     => Equivalent(locations', locations)]_vars

\* C5 witness: the exported document has been imported and restored a Place
\* made by Add whose lookup gave an enrichment with undefined fields
C5_Witness ==
  /\ lastEvent.name = "import"
  /\ download # None
  /\ lastEvent.file = Val(download)
  /\ Len(locations) = 1
  /\ locations[1].id = 1
  /\ locations[1].title = UntitledPlace
  /\ locations[1].meta = EmptyObject

\* the last step was the continuation of an awaited lookup that resolved
Committed == lastEvent.name = "settle" /\ lastEvent.status = "fulfilled"

\* a string is empty or made of spaces only
Blank(str) == \A i \in 1..Len(str) : str[i] = " "
Spaces(n) == [i \in 1..n |-> " "]
\* t is str without its leading and trailing spaces
IsTrimOf(t, str) ==
  /\ t # <<>>
  /\ t[1] # " "
  /\ t[Len(t)] # " "
  /\ \E a, b \in 0..Len(str) : str = Spaces(a) \o t \o Spaces(b)

\* C6: the Place made by Add from a draft has the lookup result as meta;
\* its title is the city of the lookup when the draft title is blank and
\* there is a city, "Untitled place" when the title is blank and there is no
\* city (a failed lookup included), and the trimmed draft title otherwise.
C6_TitleDefaulting ==
  (Committed /\ lastEvent.lookup.op = "add") =>
    LET d == lastEvent.lookup.draft
        p == locations[1]
        outcome == lastEvent.outcome
        city == MetaField(p.meta, "city")
        hasCity == city # None /\ Val(city) # <<>>
    IN  /\ p.meta = (IF outcome.kind = "data" THEN Enrichment(outcome.data)
                                              ELSE EmptyObject)
        /\ (outcome.kind = "data" /\ outcome.data \in {ResponseCity, ResponseTown})
              => (hasCity /\ Val(city) = JerseyCity /\ p.meta.country = Some("USA"))
        /\ (outcome.kind # "data" \/ outcome.data = ResponseBare) => ~hasCity
        /\ (Blank(d.title) /\ hasCity) => p.title = Val(city)
        /\ (Blank(d.title) /\ ~hasCity) => p.title = UntitledPlace
        /\ ~Blank(d.title) => IsTrimOf(p.title, d.title)

\* C6 witness: one draft with a title of one space was added twice; the
\* lookup with a city gave "JC", the failed one "Untitled place"
C6_Witness ==
  /\ Committed
  /\ lastEvent.lookup.op = "add"
  /\ lastEvent.lookup.draft.title = <<" ">>
  /\ lastEvent.outcome.kind # "data"
  /\ Len(locations) = 2
  /\ locations[1].title = UntitledPlace
  /\ locations[2].title = JerseyCity

\* C7: a lookup always resolves: when its request fails or its body cannot
\* be parsed it resolves to {}, no alert is shown, and the handler that
\* awaited it commits (a Place is added, or the matching Places are
\* overwritten) and closes the panel.
C7_LookupAlwaysResolves ==
  [][lastEvent'.name = "settle" =>
       LET l == lastEvent'.lookup
           failed == lastEvent'.outcome.kind # "data"
       IN  /\ lastEvent'.status = "fulfilled"
           /\ alerts' = alerts
           /\ draft' = None
           /\ loadingMeta' = FALSE
           /\ Len(inflight') = Len(inflight) - 1
           /\ l.op = "add" =>
                /\ Len(locations') = Len(locations) + 1
                /\ uuidCount' = uuidCount + 1
                /\ failed => locations'[1].meta = EmptyObject
           /\ l.op = "save" =>
                /\ Len(locations') = Len(locations)
                /\ \A i \in 1..Len(locations') :
                     (locations'[i].id = l.draft.id /\ failed)
                        => locations'[i].meta = EmptyObject]_vars

\* C7 witness: a lookup started by Add failed to parse and the Place was
\* added with the empty enrichment
C7_Witness ==
  /\ lastEvent.name = "settle"
  /\ lastEvent.outcome = ParseFail
  /\ lastEvent.lookup.op = "add"
  /\ locations # <<>>
  /\ locations[1].meta = EmptyObject
  /\ draft = None

\* C8: once Cancel has been pressed on a draft, no lookup started from that
\* draft creates or modifies a Place.
C8_CancelledDraftNeverCommits ==
  [][(lastEvent'.name = "settle" /\ lastEvent'.lookup.origin = "cancelled")
       => locations' = locations]_vars

\* what the commit of an awaited lookup writes, were it to read the draft d
CommitWrote(op, d) ==
  /\ op = "add" =>
       /\ locations[1].lat = d.lat
       /\ locations[1].lng = d.lng
       /\ locations[1].title = TitleOf(d, locations[1].meta)
       /\ locations[1].notes = trim(d.notes)
  /\ (op = "save" /\ IsEditing(d)) =>
       \A i \in 1..Len(locations) :
          locations[i].id = d.id =>
             /\ locations[i].lat = d.lat
             /\ locations[i].lng = d.lng
             /\ locations[i].title = d.title
             /\ locations[i].notes = d.notes

\* C9 as stated: the Place created or overwritten when a lookup resolves
\* takes its title, notes, coordinates and target id from the draft that is
\* open at that moment.
C9_CommitReadsCurrentDraft ==
  (Committed /\ lastEvent.current # None)
     => CommitWrote(lastEvent.lookup.op, Val(lastEvent.current))

\* C9 as amended: the Place created or overwritten when a lookup resolves
\* takes its title, notes, coordinates and target id from the draft as it
\* was when Add or Save was pressed; the panel is then closed, whatever it
\* showed.
C9_CommitReadsCapturedDraft ==
  Committed =>
     /\ CommitWrote(lastEvent.lookup.op, lastEvent.lookup.draft)
     /\ draft = None

\* C9 witness: the title was changed while the lookup of Add was in flight
C9_Witness ==
  /\ Committed
  /\ lastEvent.lookup.op = "add"
  /\ lastEvent.current # None
  /\ Val(lastEvent.current).title = <<" ", "a", " ">>
  /\ lastEvent.lookup.draft.title = <<>>
  /\ locations[1].title # <<"a">>

\* C10: while Done is in force (isCollecting is false) the add operation
\* adds no Place.
C10_NoAddAfterDone ==
  [][~isCollecting => uuidCount' = uuidCount]_vars
\* C11: a map click opens a new-place draft exactly when isCollecting is
\* true: then the draft is a Creating draft (no id) at the clicked point with
\* empty title and notes; otherwise the draft, locations and both flags stay
\* as they were.
C11_MapClickOpensDraftIffCollecting ==
  [][lastEvent'.name = "mapClick" =>
       IF isCollecting
         THEN /\ draft' # None
              /\ DOMAIN Val(draft') = {"lat", "lng", "title", "notes"}
              /\ Val(draft').lat = lastEvent'.point.lat
              /\ Val(draft').lng = lastEvent'.point.lng
              /\ Val(draft').title = <<>>
              /\ Val(draft').notes = <<>>
              /\ UNCHANGED <<locations, isCollecting, showList>>
         ELSE UNCHANGED <<draft, locations, isCollecting, showList>>]_vars

\* C11 witness: the map was clicked after Done, a draft opened earlier at
\* another point still showing
C11_Witness ==
  /\ lastEvent.name = "mapClick"
  /\ ~isCollecting
  /\ draft # None
  /\ Val(draft).lat # lastEvent.point.lat

\* the fields saveEdit writes
EditedKeys == {"lat", "lng", "title", "notes", "meta"}
\* the steps that replace locations wholesale, or add to it or filter it
ListSteps ==
  {"settle", "delete", "import", "reset", "reload", "mountEffects", "applyLoad"}

\* C12: the commit of an Editing draft keeps the length and order of
\* locations, leaves every Place with another id as it was, and in a Place
\* with the draft's id changes nothing but title, notes, lat, lng and meta
\* (id and createdAt are kept); the commit of a Creating draft leaves the
\* Places already listed as they were, and no other handler touches them.
C12_SaveChangesOnlyTheEditedPlace ==
  [][/\ (lastEvent'.name = "settle" /\ lastEvent'.lookup.op = "save") =>
          /\ Len(locations') = Len(locations)
          /\ \A i \in 1..Len(locations) :
               IF Field(locations[i], "id") = Field(lastEvent'.lookup.draft, "id")
                 THEN /\ DOMAIN locations'[i] = DOMAIN locations[i] \cup EditedKeys
                      /\ \A k \in DOMAIN locations[i] \ EditedKeys :
                           locations'[i][k] = locations[i][k]
                 ELSE locations'[i] = locations[i]
     /\ (lastEvent'.name = "settle" /\ lastEvent'.lookup.op = "add") =>
          Tail(locations') = locations
     /\ lastEvent'.name \notin ListSteps => locations' = locations]_vars

\* C12 witness: two Places are listed and a Save has overwritten the title
\* of one of them with the fields of its draft and a new enrichment
C12_Witness ==
  /\ Committed
  /\ lastEvent.lookup.op = "save"
  /\ Len(locations) = 2
  /\ \E i, j \in 1..2 :
       /\ locations[i].id = lastEvent.lookup.draft.id
       /\ locations[i].meta # locations[j].meta
       /\ locations[j].id # lastEvent.lookup.draft.id

\* ids that a Delete or a Save can name
CandidateIds == 1..(MaxPlaces + 1) \cup {101, 102}

\* C13: a Save commit whose draft id is no longer in locations leaves
\* locations as it was, shows no alert and closes the panel; deleting an id
\* that is not in locations leaves it as it was.
C13_UnknownIdIsNoOp ==
  [][/\ \A id \in CandidateIds \ Ids(locations) :
          DeleteUpdater(locations, id) = locations
     /\ (/\ lastEvent'.name = "settle"
         /\ lastEvent'.lookup.op = "save"
         /\ lastEvent'.lookup.draft.id \notin Ids(locations)) =>
          /\ lastEvent'.status = "fulfilled"
          /\ locations' = locations
          /\ alerts' = alerts
          /\ draft' = None]_vars

\* C13 witness: a Save has committed for a Place that was replaced while its
\* lookup was in flight, other Places being listed
C13_Witness ==
  /\ Committed
  /\ lastEvent.lookup.op = "save"
  /\ lastEvent.lookup.draft.id \notin Ids(locations)
  /\ locations # <<>>

\* C14: after an import of a JSON array, and after the startup load of a
\* persisted document, no two entries of locations have the same id.
C14_UniqueIdsAfterBulkReplace ==
  lastEvent.name \in {"import", "applyLoad"} =>
     \A i, j \in 1..Len(locations) :
        i # j => Field(locations[i], "id") # Field(locations[j], "id")

\* the slot is empty, or holds no JSON object with a locations array
NoList(raw) ==
  \/ raw = None
  \/ Val(raw).kind # "json"
  \/ Val(raw).value.type # "object"
  \/ "locations" \notin DOMAIN Val(raw).value.fields
  \/ Val(raw).value.fields.locations.type # "array"

\* the slot holds an object with a locations array but without a flag
LacksFlag(raw) ==
  /\ ~NoList(raw)
  /\ ~({"isCollecting", "showList"} \subseteq DOMAIN Val(raw).value.fields)

MountSteps == {"mountEffects", "applyLoad"}

\* C15 as stated: when the slot read at startup is absent or malformed (not
\* JSON, no locations array, or a flag missing), the state after loading is
\* the defaults.
C15_MalformedGivesDefaults ==
  (/\ phase = "ready"
   /\ lastEvent.name \in MountSteps
   /\ (NoList(lastEvent.raw) \/ LacksFlag(lastEvent.raw)))
    => (locations = <<>> /\ isCollecting /\ showList)

\* C15 as amended: when the slot read at startup is absent, not JSON or
\* without a locations array, the state after loading is the defaults;
\* when it has a locations array, that list is loaded and each flag is the
\* stored one, or false when it is missing; no alert is shown either way.
C15_LoadFallsBack ==
  [][(lastEvent'.name \in MountSteps /\ phase' = "ready") =>
       LET raw == lastEvent'.raw IN
       /\ alerts' = alerts
       /\ NoList(raw) => (locations' = <<>> /\ isCollecting' /\ showList')
       /\ ~NoList(raw) =>
            LET fields == Val(raw).value.fields IN
            /\ locations' = fields.locations.items
            /\ isCollecting' = (IF "isCollecting" \in DOMAIN fields
                                  THEN fields.isCollecting ELSE FALSE)
            /\ showList' = (IF "showList" \in DOMAIN fields
                              THEN fields.showList ELSE FALSE)]_vars

\* C15 witness: the page was opened on a stored document with a list and no
\* flags; the list is loaded and both flags are false
C15_Witness ==
  /\ phase = "ready"
  /\ lastEvent.name = "applyLoad"
  /\ LacksFlag(lastEvent.raw)
  /\ Len(locations) = 1
  /\ ~isCollecting
  /\ ~showList

\* C16: every Place in locations has a non-blank title after any sequence
\* of add and edit commits.
C16_TitlesNeverBlank ==
  \A i \in 1..Len(locations) : ~Blank(locations[i].title)
\* C17: when Add or Save is pressed and the geocode requests settle, every
\* request that settles, with a body or with a failure, commits from the
\* draft it was started with (a new Place at index 0 for Add, the matching
\* Place overwritten for Save) and closes the panel; and after a press the
\* page comes to a state where all requests have settled that way, unless
\* the page is reloaded first, which discards the requests.
C17_CommitIsLive ==
  /\ [][lastEvent'.name = "settle" =>
          /\ lastEvent'.status = "fulfilled"
          /\ draft' = None
          /\ LET d == lastEvent'.lookup.draft IN
             IF lastEvent'.lookup.op = "add"
               THEN /\ Len(locations') = Len(locations) + 1
                    /\ \A i \in 1..Len(locations) : locations'[i + 1] = locations[i]
                    /\ locations'[1].lat = d.lat
                    /\ locations'[1].lng = d.lng
                    /\ locations'[1].title = TitleOf(d, locations'[1].meta)
                    /\ locations'[1].notes = trim(d.notes)
               ELSE /\ Len(locations') = Len(locations)
                    /\ \A i \in 1..Len(locations) :
                          IF locations[i].id = d.id
                            THEN /\ locations'[i].lat = d.lat
                                 /\ locations'[i].lng = d.lng
                                 /\ locations'[i].title = d.title
                                 /\ locations'[i].notes = d.notes
                            ELSE locations'[i] = locations[i]]_vars
  /\ (lastEvent.name \in {"add", "save"})
        ~> (\/ Committed /\ draft = None /\ inflight = <<>>
            \/ lastEvent.name = "reload")

\* C17 witness: a Save whose lookup failed has committed and closed the
\* panel, and no request is left in flight
C17_Witness ==
  /\ Committed
  /\ lastEvent.lookup.op = "save"
  /\ lastEvent.outcome \in {NetFail, ParseFail}
  /\ \E i \in 1..Len(locations) :
        /\ locations[i].id = lastEvent.lookup.draft.id
        /\ locations[i].meta = EmptyObject
  /\ draft = None
  /\ inflight = <<>>
\* C18: one Creating draft yields at most one Place: a lookup started by Add
\* from a draft that another lookup has already committed adds no Place
\* when it settles.
C18_OnePlacePerDraft ==
  [][(/\ lastEvent'.name = "settle"
      /\ lastEvent'.lookup.op = "add"
      /\ lastEvent'.lookup.origin = "committed")
        => uuidCount' = uuidCount /\ Len(locations') = Len(locations)]_vars

\* C19: a lookup that was started before a confirmed Reset and settles
\* right after it, before any other event, neither changes locations nor
\* the persisted document.
C19_ResetIsFinal ==
  [][(/\ lastEvent.name = "reset"
      /\ lastEvent.confirmed
      /\ lastEvent'.name = "settle")
        => locations' = locations /\ storage' = storage]_vars

\* C20: loadingMeta is true exactly when a lookup is in flight.
C20_LoadingTracksLookups ==
  loadingMeta <=> inflight # <<>>
====
